---- MODULE Spec2Model ----
(***************************************************************************)
(* Model of runai_interactive_context/cli.py: the launcher that submits a  *)
(* RunAI job, polls it until it runs, serves it in one of three modes and  *)
(* deletes it on the way out.  One process, one thread of control (pc);    *)
(* the environment supplies the results of the subprocesses and the        *)
(* signals SIGINT and SIGHUP.                                              *)
(***************************************************************************)
EXTENDS Integers, Sequences, FiniteSets, TLC

\* ------------------------------------------------------------------ bounds

\* status polls modelled per execution (the loop itself has no cap)
MaxPolls == 3
\* SIGINTs the environment delivers per execution
MaxSigint == 2
\* SIGHUPs the environment delivers per execution
MaxSighup == 1

\* ------------------------------------------------------- program constants

\* retry(..., tries=20)
Tries == 20
\* retry(..., delay=10)
Delay == 10

VARIABLES
    pc,                 \* where the main thread is
    mode,               \* option --mode
    container_port,     \* option --container-port ("None" when not given)
    sigint_handler,     \* the handler installed for SIGINT
    sighup_handler,     \* the handler installed for SIGHUP
    original_handler,   \* DelayedKeyboardInterrupt.original_handler
    interrupt_data,     \* DelayedKeyboardInterrupt.interrupt_data (TRUE: a signal is recorded)
    exit_callbacks,     \* ExitStack._exit_callbacks, last pushed last
    exc,                \* the exception in flight ("None": none)
    exit_code,          \* -1 while the process runs, then its exit status
    help_result,        \* what `runai --help` came to ("None": not run)
    submit_calls,       \* `runai submit` processes started
    submit_rc,          \* its return code as seen by submit() ("None": not seen)
    describe_calls,     \* `runai describe job` processes run
    last_poll,          \* [rc, status] of the last describe ("None": no poll yet)
    job,                \* RunAIJobDetails of the last poll ("None": no poll yet)
    started_job,        \* what wait_until_job_started returned ("None": nothing)
    notified_container_creating,
    notices,            \* "Creating container..." lines printed
    creating_polls,     \* polls that reported CONTAINERCREATING
    handler_entered,    \* the mode handler entered ("None": none)
    tries_left,         \* retry's _tries
    logs_calls,         \* `runai logs` processes run
    last_failure,       \* the exception of the last failed attempt
    failure_kinds,      \* the exceptions the failed attempts raised
    slept,              \* the delays slept between attempts, in order
    jupyter_details,    \* JupyterConnectionDetails found ("None": none)
    pf_proc,            \* the kubectl port-forward child: none, running, exited,
                        \* terminated (by the stack's unwinding), finalized
    pf_port,            \* the container port it forwards to
    local_port,         \* the port yielded by kubectl_pod_forward_port
    delete_calls,       \* `runai delete job` processes started
    delete_state,       \* of that process: none, running, completed, killed
    delete_rc,          \* its return code ("None": not finished)
    sigints,            \* SIGINTs delivered so far
    sighups,            \* SIGHUPs delivered so far
    region_sigints,     \* SIGINTs that reached record_interrupt since __enter__
    delivered,          \* interrupts DelayedKeyboardInterrupt.__exit__ re-delivered
    kubectl_case,       \* the line handed to kubectl_output_extract_forwarded_port, by its parts
    extracted,          \* what kubectl_output_extract_forwarded_port came to
    log_case,           \* the text handed to find_jupyter_details_in_logs, by its parts
    details             \* what find_jupyter_details_in_logs came to

vars == <<pc, mode, container_port, sigint_handler, sighup_handler,
          original_handler, interrupt_data, exit_callbacks, exc, exit_code,
          help_result, creating_polls, failure_kinds, submit_calls, submit_rc, describe_calls, last_poll, job, started_job,
          notified_container_creating, notices, handler_entered, tries_left,
          logs_calls, last_failure, slept, jupyter_details, pf_proc, pf_port,
          local_port, delete_calls, delete_state, delete_rc, sigints, sighups,
          region_sigints, delivered, kubectl_case, extracted, log_case, details>>

\* groups of variables, for UNCHANGED
optVars == <<mode, container_port, help_result>>
sigVars == <<sigint_handler, sighup_handler, original_handler, interrupt_data>>
cntVars == <<sigints, sighups>>
subVars == <<submit_calls, submit_rc>>
pollVars == <<describe_calls, last_poll, job, started_job,
              notified_container_creating, notices, creating_polls,
              handler_entered>>
logVars == <<tries_left, logs_calls, last_failure, failure_kinds, slept,
             jupyter_details>>
pfVars == <<pf_proc, pf_port, local_port>>
delVars == <<delete_calls, delete_state, delete_rc>>
dkiVars == <<region_sigints, delivered>>
parserVars == <<kubectl_case, extracted, log_case, details>>

\* ------------------------------------------------------------ status names

\* Byte and text strings the code inspects are sequences of characters.
LowerCase == <<"a", "b", "c", "d", "e", "f", "g", "h", "i", "j", "k", "l", "m",
               "n", "o", "p", "q", "r", "s", "t", "u", "v", "w", "x", "y", "z">>
UpperCase == <<"A", "B", "C", "D", "E", "F", "G", "H", "I", "J", "K", "L", "M",
               "N", "O", "P", "Q", "R", "S", "T", "U", "V", "W", "X", "Y", "Z">>

\* str.upper() on one character
UpperChar(c) ==
    IF \E i \in DOMAIN LowerCase : LowerCase[i] = c
    THEN UpperCase[CHOOSE i \in DOMAIN LowerCase : LowerCase[i] = c]
    ELSE c

\* str.upper()
upper(value) == [i \in DOMAIN value |-> UpperChar(value[i])]


\* ------------------------------------------------------------- byte strings
\* A bytes value is a sequence of one-character strings.

B_Colon == <<":">>
B_Newline == <<"\n">>

\* bytes.startswith(prefix)
startswith(s, prefix) ==
    Len(s) >= Len(prefix) /\ SubSeq(s, 1, Len(prefix)) = prefix

\* bytes.find(sep, i): the first index from i on where sep occurs, 0 if none
RECURSIVE find(_, _, _)
find(s, sep, i) ==
    IF i + Len(sep) - 1 > Len(s) THEN 0
    ELSE IF SubSeq(s, i, i + Len(sep) - 1) = sep THEN i
    ELSE find(s, sep, i + 1)

\* bytes.split(sep): the pieces between the occurrences of sep
RECURSIVE split(_, _)
split(s, sep) ==
    LET i == find(s, sep, 1) IN
    IF i = 0 THEN <<s>>
    ELSE <<SubSeq(s, 1, i - 1)>> \o split(SubSeq(s, i + Len(sep), Len(s)), sep)

\* the bytes that bytes.strip(), int() and \S treat as whitespace
Whitespace == {" ", "\t", "\n", "\r", "\f"}

\* bytes.strip()
strip(s) ==
    LET kept == {i \in DOMAIN s : s[i] \notin Whitespace} IN
    IF kept = {} THEN << >>
    ELSE SubSeq(s, CHOOSE i \in kept : \A j \in kept : i <= j,
                   CHOOSE i \in kept : \A j \in kept : i >= j)

DecimalDigits == <<"0", "1", "2", "3", "4", "5", "6", "7", "8", "9">>

IsDigit(c) == \E i \in DOMAIN DecimalDigits : DecimalDigits[i] = c

DigitValue(c) == (CHOOSE i \in DOMAIN DecimalDigits : DecimalDigits[i] = c) - 1

\* the number written by a sequence of digits and underscores
RECURSIVE DigitsValue(_)
DigitsValue(s) ==
    IF s = << >> THEN 0
    ELSE LET front == SubSeq(s, 1, Len(s) - 1)
             c == s[Len(s)]
         IN IF c = "_" THEN DigitsValue(front)
            ELSE 10 * DigitsValue(front) + DigitValue(c)

\* what a call came to: kind is "None" (it returned None), "int" (it returned
\* value), "ValueError" (it raised) or "not called"
ReturnedNone == [kind |-> "None", value |-> 0]
RaisedValueError == [kind |-> "ValueError", value |-> 0]
NotCalled == [kind |-> "not called", value |-> 0]

\* int(b) on bytes: whitespace around, an optional sign, digits with single
\* underscores between them; anything else is a ValueError
int(b) ==
    LET t == strip(b)
        signed == t # << >> /\ t[1] \in {"+", "-"}
        body == IF signed THEN Tail(t) ELSE t
        wellformed ==
            /\ body # << >>
            /\ \A i \in DOMAIN body : IsDigit(body[i]) \/ body[i] = "_"
            /\ body[1] # "_"
            /\ body[Len(body)] # "_"
            /\ \A i \in 1..(Len(body) - 1) : ~(body[i] = "_" /\ body[i + 1] = "_")
    IN IF ~wellformed THEN RaisedValueError
       ELSE [kind |-> "int",
             value |-> IF signed /\ t[1] = "-"
                       THEN 0 - DigitsValue(body) ELSE DigitsValue(body)]

\* the decimal digits of a natural number, as kubectl prints a port
RECURSIVE str(_)
str(n) ==
    IF n < 10 THEN <<DecimalDigits[n + 1]>>
    ELSE str(n \div 10) \o <<DecimalDigits[(n % 10) + 1]>>

\* str.lower() on one character, and str.lower()
LowerChar(c) ==
    IF \E i \in DOMAIN UpperCase : UpperCase[i] = c
    THEN LowerCase[CHOOSE i \in DOMAIN UpperCase : UpperCase[i] = c]
    ELSE c
lower(value) == [i \in DOMAIN value |-> LowerChar(value[i])]

IsLetter(c) ==
    \E i \in DOMAIN LowerCase : LowerCase[i] = c \/ UpperCase[i] = c

\* str.partition(sep): the text before the first sep, whether sep was found,
\* and the text after it
partition(s, sep) ==
    LET i == find(s, sep, 1) IN
    IF i = 0 THEN [head |-> s, found |-> FALSE, tail |-> << >>]
    ELSE [head |-> SubSeq(s, 1, i - 1), found |-> TRUE,
          tail |-> SubSeq(s, i + Len(sep), Len(s))]

\* the last piece of str.rpartition(sep): the text after the last sep
RECURSIVE AfterLast(_, _)
AfterLast(s, sep) ==
    LET p == partition(s, sep) IN
    IF p.found THEN AfterLast(p.tail, sep) ELSE s

\* chr(code) for the codes 32 to 126 but 96
Printable ==
    <<" ", "!", "\"", "#", "$", "%", "&", "'", "(", ")", "*", "+", ",", "-", ".", "/",
      "0", "1", "2", "3", "4", "5", "6", "7", "8", "9", ":", ";", "<", "=", ">", "?",
      "@", "A", "B", "C", "D", "E", "F", "G", "H", "I", "J", "K", "L", "M", "N", "O",
      "P", "Q", "R", "S", "T", "U", "V", "W", "X", "Y", "Z", "[", "\\", "]", "^", "_">>
PrintableFrom97 ==
    <<"a", "b", "c", "d", "e", "f", "g", "h", "i", "j", "k", "l", "m", "n", "o", "p",
      "q", "r", "s", "t", "u", "v", "w", "x", "y", "z", "{", "|", "}", "~">>
Decodable == (32..95) \cup (97..126)
chr(code) ==
    IF code <= 95 THEN Printable[code - 31] ELSE PrintableFrom97[code - 96]

HexDigits == <<"0", "1", "2", "3", "4", "5", "6", "7", "8", "9",
               "a", "b", "c", "d", "e", "f">>
IsHex(c) == \E i \in DOMAIN HexDigits : HexDigits[i] = LowerChar(c)
HexValue(c) ==
    (CHOOSE i \in DOMAIN HexDigits : HexDigits[i] = LowerChar(c)) - 1

\* the %XX escapes of s replaced by the characters they stand for.  Text that
\* is no escape stays; escapes of codes outside Decodable are not modelled and
\* stay as written.
RECURSIVE unquote(_)
unquote(s) ==
    IF s = << >> THEN << >>
    ELSE IF /\ s[1] = "%"
            /\ Len(s) >= 3
            /\ IsHex(s[2])
            /\ IsHex(s[3])
            /\ 16 * HexValue(s[2]) + HexValue(s[3]) \in Decodable
    THEN <<chr(16 * HexValue(s[2]) + HexValue(s[3]))>>
             \o unquote(SubSeq(s, 4, Len(s)))
    ELSE <<s[1]>> \o unquote(Tail(s))

\* parse_qsl on one name or value: "+" is a space, then unquote
unquote_plus(s) ==
    unquote([i \in DOMAIN s |-> IF s[i] = "+" THEN " " ELSE s[i]])

\* how a server writes a name or value into a query: a space as "+", and
\* the characters that structure a URL as %XX
RECURSIVE quote_plus(_)
quote_plus(s) ==
    IF s = << >> THEN << >>
    ELSE (CASE s[1] = " " -> <<"+">>
            [] s[1] = "/" -> <<"%", "2", "F">>
            [] s[1] = "&" -> <<"%", "2", "6">>
            [] s[1] = "+" -> <<"%", "2", "B">>
            [] OTHER -> <<s[1]>>) \o quote_plus(Tail(s))

\* class RunAIJobStatus: the members, by name
RunAIJobStatus ==
    {"PENDING", "CONTAINERCREATING", "RUNNING", "NOT_READY",
     "IMAGEPULLBACKOFF", "DOES_NOT_EXISTS"}

\* the attribute name of each member, as characters
MemberName(m) ==
    CASE m = "PENDING" -> <<"P", "E", "N", "D", "I", "N", "G">>
      [] m = "CONTAINERCREATING" -> <<"C", "O", "N", "T", "A", "I", "N", "E", "R", "C", "R", "E", "A", "T", "I", "N", "G">>
      [] m = "RUNNING" -> <<"R", "U", "N", "N", "I", "N", "G">>
      [] m = "NOT_READY" -> <<"N", "O", "T", "_", "R", "E", "A", "D", "Y">>
      [] m = "IMAGEPULLBACKOFF" -> <<"I", "M", "A", "G", "E", "P", "U", "L", "L", "B", "A", "C", "K", "O", "F", "F">>
      [] m = "DOES_NOT_EXISTS" -> <<"D", "O", "E", "S", "_", "N", "O", "T", "_", "E", "X", "I", "S", "T", "S">>

\* a from_str whose fallback is the fatal status
from_str_fatal_fallback(value) ==
    LET name == upper(value) IN
    IF \E m \in RunAIJobStatus : MemberName(m) = name
    THEN CHOOSE m \in RunAIJobStatus : MemberName(m) = name
    ELSE "DOES_NOT_EXISTS"

\* RunAIJobStatus.from_str: getattr(cls, value.upper(), NOT_READY).  The only
\* attributes of the class whose names upper() can produce are its members.
from_str(value) ==
    LET name == upper(value) IN
    IF \E m \in RunAIJobStatus : MemberName(m) = name
    THEN CHOOSE m \in RunAIJobStatus : MemberName(m) = name
    ELSE "NOT_READY"

\* status strings the scheduler may report in a successful describe
S_Pending == <<"P", "e", "n", "d", "i", "n", "g">>
S_ContainerCreating == <<"C", "o", "n", "t", "a", "i", "n", "e", "r", "C", "r", "e", "a", "t", "i", "n", "g">>
S_Running == <<"R", "u", "n", "n", "i", "n", "g">>
S_ImagePullBackOff == <<"I", "m", "a", "g", "e", "P", "u", "l", "l", "B", "a", "c", "k", "O", "f", "f">>
S_Failed == <<"F", "a", "i", "l", "e", "d">>
S_Succeeded == <<"S", "u", "c", "c", "e", "e", "d", "e", "d">>
S_does_not_exists == <<"d", "o", "e", "s", "_", "n", "o", "t", "_", "e", "x", "i", "s", "t", "s">>
S_Empty == << >>

StatusStrings ==
    {S_Pending, S_ContainerCreating, S_Running, S_ImagePullBackOff,
     S_Failed, S_Succeeded, S_does_not_exists, S_Empty}

\* what `runai describe job` may produce: a nonzero exit, or exit 0 and a status
DescribeResults ==
    {[rc |-> 1, status |-> S_Empty]} \cup
    {[rc |-> 0, status |-> s] : s \in StatusStrings}

\* get_runai_job_status: the handle built from one describe result; n numbers
\* the poll that produced it
get_runai_job_status(result, n) ==
    IF result.rc # 0
    THEN [status |-> "DOES_NOT_EXISTS", poll |-> n]
    ELSE [status |-> from_str(result.status), poll |-> n]


\* ------------------------------------------------------------ control flow

\* container_port: Optional[int] = None
NoPort == -1

\* class RunAIInteractiveMode
RunAIInteractiveMode == {"shell", "port", "jupyter"}

\* values of --container-port
ContainerPorts == {NoPort, 8888}

NoPoll == [rc |-> -1, status |-> S_Empty]
NoJob == [status |-> "None", poll |-> 0]
\* what find_jupyter_details_in_logs came to: kind is "None" (it returned
\* None), "details" (it returned JupyterConnectionDetails(container_port,
\* token)), "ValueError" (it raised) or "not called"
NoDetails == [kind |-> "None", container_port |-> NoPort, token |-> << >>]
DetailsValueError == [kind |-> "ValueError", container_port |-> NoPort, token |-> << >>]
DetailsNotCalled == [kind |-> "not called", container_port |-> NoPort, token |-> << >>]

\* interactive_context before the with statement is entered
PreWith == {"check_command", "check_port", "signal_setup", "with_enter"}

\* the body of the with statement
Body == {"push", "submit", "submit_wait", "poll", "sleep", "idle_wait",
         "pf_start", "pf_read", "logs_fetch", "retry_sleep"}

\* DelayedKeyboardInterruptExitStack.__exit__, from its first line on
Teardown == {"stack_exit", "unwind", "cb_pf", "cb_delete", "delete_wait",
             "dki_exit"}

\* the exit status typer gives the process for the exception that leaves
\* interactive_context: typer.Exit(code=1), an abort, or an uncaught error
ExitCode(e) == IF e = "None" THEN 0 ELSE 1

\* Where an exception raised at the current pc takes control.  Before the with
\* statement it ends the process.  In its body it enters the stack's __exit__.
\* In __exit__ before super().__exit__ is reached (the print, and
\* DelayedKeyboardInterrupt not yet entered) it leaves __exit__ with no
\* callback run.  In ExitStack.__exit__ between two callbacks it leaves the
\* loop, the callbacks left unrun.  Inside a callback it is caught by
\* ExitStack.__exit__, which goes on with the next callback; subprocess.run
\* kills the child it was waiting for.
RaiseTarget ==
    CASE pc \in PreWith -> "done"
      [] pc \in Body -> "stack_exit"
      [] pc = "stack_exit" -> "done"
      [] pc = "unwind" -> "dki_exit"
      [] pc \in {"cb_pf", "cb_delete", "delete_wait"} -> "unwind"
      [] pc = "dki_exit" -> "done"

Raise(e) ==
    /\ pc' = RaiseTarget
    /\ exc' = e
    /\ exit_code' = IF RaiseTarget = "done" THEN ExitCode(e) ELSE exit_code
    /\ delete_state' = IF pc = "delete_wait" THEN "killed" ELSE delete_state

\* the state of the lifecycle when interactive_context is called
InitLifecycle ==
    /\ pc = "check_command"
    /\ mode \in RunAIInteractiveMode
    /\ container_port \in ContainerPorts
    /\ sigint_handler \in {"default_int_handler", "SIG_IGN"}
    /\ sighup_handler = "SIG_DFL"
    /\ original_handler = "None"
    /\ interrupt_data = FALSE
    /\ exit_callbacks = << >>
    /\ exc = "None"
    /\ exit_code = -1
    /\ help_result = "None"
    /\ creating_polls = 0
    /\ failure_kinds = {}
    /\ submit_calls = 0
    /\ submit_rc = -1
    /\ describe_calls = 0
    /\ last_poll = NoPoll
    /\ job = NoJob
    /\ started_job = NoJob
    /\ notified_container_creating = FALSE
    /\ notices = 0
    /\ handler_entered = "None"
    /\ tries_left = Tries
    /\ logs_calls = 0
    /\ last_failure = "None"
    /\ slept = << >>
    /\ jupyter_details = NoDetails
    /\ pf_proc = "none"
    /\ pf_port = NoPort
    /\ local_port = NoPort
    /\ delete_calls = 0
    /\ delete_state = "none"
    /\ delete_rc = -1
    /\ sigints = 0
    /\ sighups = 0
    /\ region_sigints = 0
    /\ delivered = 0

\* what running a command may come to: the executable is missing, or it exits
CommandResults == {"FileNotFoundError", "returncode 0", "returncode 1"}

\* check_command: True iff the command was found and returned 0
check_command(result) == result = "returncode 0"

\* interactive_context, lines 283-285: `runai --help` must succeed
CheckCommand ==
    /\ pc = "check_command"
    /\ \E result \in CommandResults :
         /\ help_result' = result
         /\ IF check_command(result)
            THEN /\ pc' = "check_port"
                 /\ UNCHANGED <<exc, exit_code>>
            ELSE /\ pc' = "done"
                 /\ exc' = "Exit"
                 /\ exit_code' = ExitCode("Exit")
    /\ UNCHANGED <<parserVars, dkiVars, mode, container_port, sigVars, cntVars, subVars, pollVars, logVars,
                   pfVars, delVars, exit_callbacks>>

\* a port check that lets mode=port through without a port
MissingPortNever(m, p) == FALSE

\* the condition of line 288
MissingPort(m, p) == m = "port" /\ p = NoPort

\* interactive_context, lines 288-290
CheckPort ==
    /\ pc = "check_port"
    /\ IF MissingPort(mode, container_port)
       THEN /\ pc' = "done"
            /\ exc' = "Exit"
            /\ exit_code' = ExitCode("Exit")
       ELSE /\ pc' = "signal_setup"
            /\ UNCHANGED <<exc, exit_code>>
    /\ UNCHANGED <<parserVars, dkiVars, optVars, sigVars, cntVars, subVars, pollVars, logVars,
                   pfVars, delVars, exit_callbacks>>

\* line 293: signal.signal(signal.SIGHUP, handle_sighup)
SetupSighup ==
    /\ pc = "signal_setup"
    /\ pc' = "with_enter"
    /\ sighup_handler' = "handle_sighup"
    /\ UNCHANGED <<parserVars, dkiVars, optVars, sigint_handler, original_handler, interrupt_data,
                   cntVars, subVars, pollVars, logVars, pfVars, delVars,
                   exit_callbacks, exc, exit_code>>

\* line 295: the stack is created and entered
WithEnter ==
    /\ pc = "with_enter"
    /\ pc' = "push"
    /\ UNCHANGED <<parserVars, dkiVars, optVars, sigVars, cntVars, subVars, pollVars, logVars,
                   pfVars, delVars, exit_callbacks, exc, exit_code>>

\* a registration that puts job_def.__exit__ on the stack twice
PushTwice ==
    /\ pc = "push"
    /\ pc' = "submit"
    /\ exit_callbacks' = exit_callbacks \o <<"job_def", "job_def">>
    /\ UNCHANGED <<parserVars, dkiVars, optVars, sigVars, cntVars, subVars, pollVars, logVars,
                   pfVars, delVars, exc, exit_code>>

\* lines 296-298: stack.push(job_def) registers job_def.__exit__
Push ==
    /\ pc = "push"
    /\ pc' = "submit"
    /\ exit_callbacks' = Append(exit_callbacks, "job_def")
    /\ UNCHANGED <<parserVars, dkiVars, optVars, sigVars, cntVars, subVars, pollVars, logVars,
                   pfVars, delVars, exc, exit_code>>

\* submit, line 164: the `runai submit` child is started
SubmitStart ==
    /\ pc = "submit"
    /\ pc' = "submit_wait"
    /\ submit_calls' = submit_calls + 1
    /\ UNCHANGED <<parserVars, dkiVars, optVars, sigVars, cntVars, submit_rc, pollVars, logVars,
                   pfVars, delVars, exit_callbacks, exc, exit_code>>

\* submit, lines 164-168: the child has exited; nonzero raises typer.Exit
SubmitFinish ==
    /\ pc = "submit_wait"
    /\ \E rc \in {0, 1} :
         /\ submit_rc' = rc
         /\ IF rc # 0
            THEN Raise("Exit")
            ELSE /\ pc' = "poll"
                 /\ UNCHANGED <<exc, exit_code, delete_state>>
    /\ UNCHANGED <<parserVars, dkiVars, optVars, sigVars, cntVars, submit_calls, pollVars, logVars,
                   pfVars, delete_calls, delete_rc, exit_callbacks>>


\* ------------------------------------------------------------------ poller

\* a loop that gives up on a job that is still pending
FatalStatusOrPending(status) ==
    status \in {"DOES_NOT_EXISTS", "IMAGEPULLBACKOFF", "PENDING"}

\* wait_until_job_started, lines 132-137: the statuses that raise typer.Exit
FatalStatus(status) == status \in {"DOES_NOT_EXISTS", "IMAGEPULLBACKOFF"}

\* a notice test that has lost the flag
ShouldNotifyAlways(status, notified) == status = "CONTAINERCREATING"

\* wait_until_job_started, lines 138-141
ShouldNotify(status, notified) == status = "CONTAINERCREATING" /\ ~notified

\* lines 302-310: where the mode handler of mode m starts
HandlerEntry(m) ==
    CASE m = "shell" -> "idle_wait"
      [] m = "port" -> "pf_start"
      [] m = "jupyter" -> "logs_fetch"

\* wait_until_job_started, lines 131-145: one describe and the loop body that
\* follows it; a RUNNING handle is returned to interactive_context, which
\* enters the mode handler
Poll ==
    /\ pc = "poll"
    /\ describe_calls < MaxPolls
    /\ \E result \in DescribeResults :
         LET j == get_runai_job_status(result, describe_calls + 1) IN
         /\ describe_calls' = describe_calls + 1
         /\ last_poll' = result
         /\ job' = j
         /\ IF j.status = "RUNNING"
            THEN /\ started_job' = j
                 /\ handler_entered' = mode
                 /\ pc' = HandlerEntry(mode)
                 /\ UNCHANGED <<notified_container_creating, notices,
                                creating_polls, exc, exit_code, delete_state>>
            ELSE IF FatalStatus(j.status)
            THEN /\ Raise("Exit")
                 /\ UNCHANGED <<started_job, handler_entered,
                                notified_container_creating, notices,
                                creating_polls>>
            ELSE /\ pc' = "sleep"
                 /\ creating_polls' = IF j.status = "CONTAINERCREATING"
                                      THEN creating_polls + 1 ELSE creating_polls
                 /\ notices' = IF ShouldNotify(j.status, notified_container_creating)
                               THEN notices + 1 ELSE notices
                 /\ notified_container_creating' =
                        (notified_container_creating
                         \/ ShouldNotify(j.status, notified_container_creating))
                 /\ UNCHANGED <<started_job, handler_entered, exc, exit_code,
                                delete_state>>
    /\ UNCHANGED <<parserVars, dkiVars, optVars, sigVars, cntVars, subVars, logVars, pfVars,
                   delete_calls, delete_rc, exit_callbacks>>

\* line 144: time.sleep(5), then the next describe
Sleep ==
    /\ pc = "sleep"
    /\ pc' = "poll"
    /\ UNCHANGED <<parserVars, dkiVars, optVars, sigVars, cntVars, subVars, pollVars, logVars,
                   pfVars, delVars, exit_callbacks, exc, exit_code>>

\* --------------------------------------------------------- endpoint scraper

B_http == <<"h", "t", "t", "p">>
B_https == <<"h", "t", "t", "p", "s">>
B_SchemeSep == <<":", "/", "/">>
B_Slashes == <<"/", "/">>
B_token == <<"t", "o", "k", "e", "n">>
B_localhost_host == <<"l", "o", "c", "a", "l", "h", "o", "s", "t">>
B_RootPath == <<"/">>
B_Space == <<" ">>

\* the end of the run of non-whitespace bytes that goes on after index k
RECURSIVE RunEnd(_, _)
RunEnd(line, k) ==
    IF k < Len(line) /\ line[k + 1] \notin Whitespace
    THEN RunEnd(line, k + 1)
    ELSE k

\* URL_RE.findall, line 234: the matches of http\S+ from index i on, leftmost
\* first and not overlapping; "http" with no non-whitespace byte after it is
\* no match
RECURSIVE findall(_, _)
findall(line, i) ==
    LET j == find(line, B_http, i) IN
    IF j = 0 THEN << >>
    ELSE LET last == RunEnd(line, j + 3) IN
         IF last = j + 3 THEN findall(line, j + 1)
         ELSE <<SubSeq(line, j, last)>> \o findall(line, last + 1)

\* characters a URL scheme may hold after its first letter
IsSchemeChar(c) == IsLetter(c) \/ IsDigit(c) \/ c \in {"+", "-", "."}

\* the first index of s that holds one of the characters of cs, Len(s) + 1
\* if none does
FirstOf(s, cs) ==
    LET at == {k \in DOMAIN s : s[k] \in cs} IN
    IF at = {} THEN Len(s) + 1 ELSE CHOOSE k \in at : \A l \in at : k <= l

\* urllib.parse.urlparse: scheme, netloc, and the query between "?" and "#";
\* raised when the brackets of the netloc do not pair
urlparse(url) ==
    LET colon == find(url, B_Colon, 1)
        has_scheme == /\ colon > 1
                      /\ IsLetter(url[1])
                      /\ \A k \in 1..(colon - 1) : IsSchemeChar(url[k])
        rest == IF has_scheme THEN SubSeq(url, colon + 1, Len(url)) ELSE url
        has_netloc == startswith(rest, B_Slashes)
        after == SubSeq(rest, 3, Len(rest))
        delim == FirstOf(after, {"/", "?", "#"})
        netloc == IF has_netloc THEN SubSeq(after, 1, delim - 1) ELSE << >>
        tail == IF has_netloc THEN SubSeq(after, delim, Len(after)) ELSE rest
        unfragmented == partition(tail, <<"#">>).head
    IN [scheme |-> IF has_scheme THEN lower(SubSeq(url, 1, colon - 1)) ELSE << >>,
        netloc |-> netloc,
        query |-> partition(unfragmented, <<"?">>).tail,
        raised |-> (\E k \in DOMAIN netloc : netloc[k] = "[")
                       # (\E k \in DOMAIN netloc : netloc[k] = "]")]

\* ParseResult.port: the digits after the host's colon; None when there are
\* none, a ValueError when they are no number of 0..65535
url_port(netloc) ==
    LET hostinfo == AfterLast(netloc, <<"@">>)
        bracket == partition(hostinfo, <<"[">>)
        port == IF bracket.found
                THEN partition(partition(bracket.tail, <<"]">>).tail, B_Colon).tail
                ELSE partition(hostinfo, B_Colon).tail
    IN IF port = << >> THEN ReturnedNone
       ELSE IF /\ \A k \in DOMAIN port : IsDigit(port[k])
               /\ DigitsValue(port) <= 65535
       THEN [kind |-> "int", value |-> DigitsValue(port)]
       ELSE RaisedValueError

\* parse_qs(query).get(name): the values given to name, in order, blank values
\* dropped; << >> stands for None
RECURSIVE values_of(_, _)
values_of(fields, name) ==
    IF fields = << >> THEN << >>
    ELSE LET nv == partition(Head(fields), <<"=">>)
             later == values_of(Tail(fields), name)
         IN IF nv.found /\ nv.tail # << >> /\ unquote_plus(nv.head) = name
            THEN <<unquote_plus(nv.tail)>> \o later
            ELSE later

parse_qs_get(query, name) == values_of(split(query, <<"&">>), name)

\* a default that is 80 for every scheme
DefaultPortAlways80(scheme) == 80

\* line 245: port = 80 if url_obj.scheme == "http" else 443
DefaultPort(scheme) == IF scheme = B_http THEN 80 ELSE 443

\* find_jupyter_details_in_logs, lines 239-246: the loop over the urls
RECURSIVE first_with_token(_)
first_with_token(urls) ==
    IF urls = << >> THEN NoDetails
    ELSE LET url_obj == urlparse(Head(urls)) IN
         IF url_obj.raised THEN DetailsValueError
         ELSE LET token == parse_qs_get(url_obj.query, B_token) IN
              IF token = << >> THEN first_with_token(Tail(urls))
              ELSE LET port == url_port(url_obj.netloc) IN
                   IF port.kind = "ValueError" THEN DetailsValueError
                   ELSE [kind |-> "details",
                         container_port |->
                             IF port.kind = "None"
                             THEN DefaultPort(url_obj.scheme) ELSE port.value,
                         token |-> token[1]]

\* find_jupyter_details_in_logs, lines 237-246
find_jupyter_details_in_logs(line) == first_with_token(findall(line, 1))

\* ---- the log text, by its parts
\* A log text is a sequence of items with one separator between them.  An item
\* is a word, or a URL with the text that stands directly before it (glue).

B_browser == <<"b", "r", "o", "w", "s", "e", "r", ":">>
B_see == <<"s", "e", "e">>
B_other == <<"o", "t", "h", "e", "r">>
TokenOfTest == <<"0", "a", "e", "6", "7", "a", "e", "0">>
TokenWithSpace == <<"a", " ", "b", "/", "c">>

RECURSIVE RenderQuery(_)
RenderQuery(params) ==
    IF params = << >> THEN << >>
    ELSE quote_plus(Head(params).name) \o <<"=">> \o quote_plus(Head(params).value)
         \o (IF Len(params) > 1 THEN <<"&">> ELSE << >>)
         \o RenderQuery(Tail(params))

\* the item as the server writes it into its log
RenderItem(u) ==
    IF ~u.url THEN u.glue
    ELSE u.glue \o u.scheme \o B_SchemeSep \o B_localhost_host
         \o (IF u.port = NoPort THEN << >> ELSE B_Colon \o str(u.port))
         \o B_RootPath
         \o (IF u.params = << >> THEN << >> ELSE <<"?">> \o RenderQuery(u.params))

RECURSIVE RenderItems(_, _)
RenderItems(items, sep) ==
    IF items = << >> THEN << >>
    ELSE RenderItem(Head(items))
         \o (IF Len(items) > 1 THEN sep ELSE << >>)
         \o RenderItems(Tail(items), sep)

RenderLog(c) == RenderItems(c.items, c.sep)

Word(text) ==
    [glue |-> text, url |-> FALSE, scheme |-> B_http, port |-> NoPort,
     params |-> << >>]

URLItem(glue, scheme, port, params) ==
    [glue |-> glue, url |-> TRUE, scheme |-> scheme, port |-> port,
     params |-> params]

Param(name, value) == [name |-> name, value |-> value]

\* the text of tests/test_jupyter_parser.py, by its parts
TestLog ==
    [items |-> <<URLItem(<< >>, B_http, 8970, <<Param(B_token, TokenOfTest)>>)>>,
     sep |-> B_Space]

\* the log texts `runai logs` gives while the lifecycle runs: nothing, a URL
\* without a token, the URL of tests/test_jupyter_parser.py, and a URL
\* without a token before an https URL with one
LogTexts ==
    {<< >>,
     RenderLog([items |-> <<Word(B_browser), URLItem(<< >>, B_http, NoPort, << >>)>>,
                sep |-> B_Space]),
     RenderLog(TestLog),
     RenderLog([items |-> <<URLItem(<< >>, B_http, NoPort, << >>),
                            URLItem(<< >>, B_https, NoPort,
                                    <<Param(B_token, TokenWithSpace)>>)>>,
                sep |-> B_Newline])}

\* what `runai logs` may produce
LogsResults ==
    {[rc |-> 1, stdout |-> << >>]} \cup {[rc |-> 0, stdout |-> t] : t \in LogTexts}

\* the body of extract_jupyter_details_from_job, lines 251-257: the exception
\* it raises for one logs result ("None": it returns)
AttemptFailure(result) ==
    IF result.rc # 0 THEN "CalledProcessError"
    ELSE IF find_jupyter_details_in_logs(result.stdout).kind # "details"
    THEN "ValueError"
    ELSE "None"

\* a retry that does not count a failed command against the budget
TriesAfterFreeCommandFailure(failure, tries) ==
    IF failure = "CalledProcessError" THEN tries ELSE tries - 1

\* retry, line 249: every caught exception takes one try
TriesAfter(failure, tries) == tries - 1

\* retry, line 249: delay=10, no backoff, no jitter
DelayAfter(failure) == Delay

\* extract_jupyter_details_from_job under retry, lines 249-257: one attempt.
\* A failure with tries left goes to the delay; the last failure is re-raised
\* as it is; a result is handed to _handle_port_context (lines 261-267)
LogsFetch ==
    /\ pc = "logs_fetch"
    /\ tries_left > 0
    /\ \E result \in LogsResults :
         LET failure == AttemptFailure(result) IN
         /\ logs_calls' = logs_calls + 1
         /\ IF failure = "None"
            THEN /\ jupyter_details' = find_jupyter_details_in_logs(result.stdout)
                 /\ pc' = "pf_start"
                 /\ UNCHANGED <<tries_left, last_failure, failure_kinds, exc,
                                exit_code, delete_state>>
            ELSE /\ tries_left' = TriesAfter(failure, tries_left)
                 /\ last_failure' = failure
                 /\ failure_kinds' = failure_kinds \cup {failure}
                 /\ jupyter_details' = jupyter_details
                 /\ IF tries_left' = 0
                    THEN Raise(failure)
                    ELSE /\ pc' = "retry_sleep"
                         /\ UNCHANGED <<exc, exit_code, delete_state>>
    /\ UNCHANGED <<parserVars, dkiVars, optVars, sigVars, cntVars, subVars, pollVars, slept, pfVars,
                   delete_calls, delete_rc, exit_callbacks>>

\* retry: time.sleep(_delay) before the next attempt
RetrySleep ==
    /\ pc = "retry_sleep"
    /\ pc' = "logs_fetch"
    /\ slept' = Append(slept, DelayAfter(last_failure))
    /\ UNCHANGED <<parserVars, dkiVars, optVars, sigVars, cntVars, subVars, pollVars, tries_left,
                   logs_calls, last_failure, failure_kinds, jupyter_details,
                   pfVars, delVars,
                   exit_callbacks, exc, exit_code>>


\* ------------------------------------------------------------- port forward

B_Forwarding == <<"F", "o", "r", "w", "a", "r", "d", "i", "n", "g">>
B_Arrow == <<" ", "-", ">", " ">>

\* the parts of a line of kubectl port-forward: what stands before the host,
\* the host, the local and the remote port, and the line's end
B_ForwardingFrom == <<"F", "o", "r", "w", "a", "r", "d", "i", "n", "g", " ", "f", "r", "o", "m", " ">>
B_forwarding_from == <<"f", "o", "r", "w", "a", "r", "d", "i", "n", "g", " ", "f", "r", "o", "m", " ">>
B_HandlingConnectionFor == <<"H", "a", "n", "d", "l", "i", "n", "g", " ", "c", "o", "n", "n", "e", "c", "t", "i", "o", "n", " ", "f", "o", "r", " ">>
B_Forwardin == <<"F", "o", "r", "w", "a", "r", "d", "i", "n">>
B_Else == <<"E", "l", "s", "e">>
B_IPv4Loopback == <<"1", "2", "7", ".", "0", ".", "0", ".", "1">>
B_localhost == <<"l", "o", "c", "a", "l", "h", "o", "s", "t">>
B_IPv6Loopback == <<"[", ":", ":", "1", "]">>

\* the line as kubectl writes it: <prefix><host>:<local_port> -> <remote_port>
ForwardingLine(c) ==
    c.prefix \o c.host \o B_Colon \o str(c.local_port) \o B_Arrow
        \o str(c.remote_port) \o c.ending

\* the line of tests/test_kubectl_parser.py, as the child writes it
TestCase ==
    [prefix |-> B_ForwardingFrom, host |-> B_IPv4Loopback, local_port |-> 34805,
     remote_port |-> 8888, ending |-> B_Newline]

\* the lines kubectl port-forward prints while the lifecycle runs
KubectlLines ==
    {ForwardingLine(TestCase),
     B_HandlingConnectionFor \o str(34805) \o B_Newline}

\* kubectl_output_extract_forwarded_port, lines 180-188
kubectl_output_extract_forwarded_port(stdout_line) ==
    IF ~startswith(stdout_line, B_Forwarding) THEN ReturnedNone
    ELSE LET parts == split(stdout_line, B_Colon) IN
         IF Len(parts) # 2 THEN RaisedValueError
         ELSE LET ports_map == split(parts[2], B_Arrow) IN
              IF Len(ports_map) # 2 THEN RaisedValueError
              ELSE int(ports_map[1])

\* _handle_port_context, line 227: the container port handed to
\* kubectl_pod_forward_port (line 306 in port mode, line 265 in jupyter mode)
ForwardTarget ==
    IF mode = "jupyter" THEN jupyter_details.container_port ELSE container_port

\* kubectl_pod_forward_port, lines 195-199: the child is started
PfStart ==
    /\ pc = "pf_start"
    /\ \E found \in BOOLEAN :
         IF found
         THEN /\ pc' = "pf_read"
              /\ pf_proc' = "running"
              /\ pf_port' = ForwardTarget
              /\ UNCHANGED <<exc, exit_code, delete_state>>
         ELSE /\ Raise("FileNotFoundError")
              /\ UNCHANGED <<pf_proc, pf_port>>
    /\ UNCHANGED <<parserVars, dkiVars, optVars, sigVars, cntVars, subVars, pollVars, logVars,
                   local_port, delete_calls, delete_rc, exit_callbacks>>

\* kubectl_pod_forward_port, lines 201-205: one line of the child's stdout, or
\* its end.  The first port found is yielded: enter_context registers the
\* generator's exit and _handle_port_context goes on to the idle wait
\* (lines 226-231).  A stream that ends first leaves the generator without a
\* yield, which contextmanager reports as a RuntimeError.
PfReadLine ==
    /\ pc = "pf_read"
    /\ \/ \E line \in KubectlLines :
            LET port == kubectl_output_extract_forwarded_port(line) IN
            IF port.kind = "None"
            THEN UNCHANGED <<pc, pfVars, exit_callbacks, exc, exit_code,
                             delete_state>>
            ELSE IF port.kind = "ValueError"
            THEN /\ Raise("ValueError")
                 /\ UNCHANGED <<pfVars, exit_callbacks>>
            ELSE /\ pc' = "idle_wait"
                 /\ local_port' = port.value
                 /\ exit_callbacks' =
                        Append(exit_callbacks, "kubectl_pod_forward_port")
                 /\ UNCHANGED <<pf_proc, pf_port, exc, exit_code, delete_state>>
       \/ /\ pf_proc' = "exited"
          /\ Raise("RuntimeError")
          /\ UNCHANGED <<pf_port, local_port, exit_callbacks>>
    /\ UNCHANGED <<parserVars, dkiVars, optVars, sigVars, cntVars, subVars, pollVars, logVars,
                   delete_calls, delete_rc>>

\* ------------------------------------------------------------------ teardown

\* DelayedKeyboardInterruptExitStack.__exit__, lines 46-47, and
\* DelayedKeyboardInterrupt.__enter__, lines 28-30: from here on a SIGINT is
\* recorded
EnterDelayed ==
    /\ pc = "stack_exit"
    /\ pc' = "unwind"
    /\ interrupt_data' = FALSE
    /\ original_handler' = sigint_handler
    /\ sigint_handler' = "record_interrupt"
    /\ region_sigints' = 0
    /\ UNCHANGED delivered
    /\ UNCHANGED <<parserVars, optVars, sighup_handler, cntVars, subVars, pollVars,
                   logVars, pfVars, delVars, exit_callbacks, exc, exit_code>>

\* line 48, ExitStack.__exit__: the callback pushed last is popped and called;
\* with none left, the with statement of line 47 is left
UnwindNext ==
    /\ pc = "unwind"
    /\ IF exit_callbacks = << >>
       THEN /\ pc' = "dki_exit"
            /\ UNCHANGED exit_callbacks
       ELSE /\ pc' = IF exit_callbacks[Len(exit_callbacks)] = "job_def"
                     THEN "cb_delete" ELSE "cb_pf"
            /\ exit_callbacks' = SubSeq(exit_callbacks, 1, Len(exit_callbacks) - 1)
    /\ UNCHANGED <<parserVars, dkiVars, optVars, sigVars, cntVars, subVars, pollVars, logVars,
                   pfVars, delVars, exc, exit_code>>

\* kubectl_pod_forward_port, lines 206-207: the exception is thrown into the
\* generator at its yield; finally: proc.terminate()
PfExit ==
    /\ pc = "cb_pf"
    /\ pc' = "unwind"
    /\ pf_proc' = "terminated"
    /\ UNCHANGED <<parserVars, dkiVars, optVars, sigVars, cntVars, subVars, pollVars, logVars,
                   pf_port, local_port, delVars, exit_callbacks, exc, exit_code>>

\* RunAIInteractiveJob.__exit__, lines 174-177: the `runai delete job` child
\* is started; it ignores SIGINT (preexec_ignore_sigint)
DeleteStart ==
    /\ pc = "cb_delete"
    /\ pc' = "delete_wait"
    /\ delete_calls' = delete_calls + 1
    /\ delete_state' = "running"
    /\ UNCHANGED <<parserVars, dkiVars, optVars, sigVars, cntVars, subVars, pollVars, logVars,
                   pfVars, delete_rc, exit_callbacks, exc, exit_code>>

\* a delete run with check=True: a nonzero exit raises CalledProcessError
ExcAfterDeleteChecked(rc, e) == IF rc # 0 THEN "CalledProcessError" ELSE e

\* lines 175-177: subprocess.run without check and its result dropped: the
\* exception in flight after the delete child exited with rc is the one before
ExcAfterDelete(rc, e) == e

\* lines 175-177: the child has exited; its return code is not looked at
DeleteFinish ==
    /\ pc = "delete_wait"
    /\ pc' = "unwind"
    /\ \E rc \in {0, 1} :
         /\ delete_rc' = rc
         /\ exc' = ExcAfterDelete(rc, exc)
    /\ delete_state' = "completed"
    /\ UNCHANGED <<parserVars, dkiVars, optVars, sigVars, cntVars, subVars, pollVars, logVars,
                   pfVars, delete_calls, exit_callbacks, exit_code>>

\* a DelayedKeyboardInterrupt.__exit__ that delivers the recorded interrupt
\* whatever handler was in force on entry
RedeliversIgnoringPolicy(data, original) ==
    data

\* DelayedKeyboardInterrupt.__exit__, lines 35-41: whether the recorded
\* interrupt is delivered on leaving the region
Redelivers(data, original) ==
    data /\ original \notin {"None", "SIG_IGN"}

\* DelayedKeyboardInterrupt.__exit__, lines 32-41: the handler is restored and
\* a recorded interrupt raised; the exception then leaves interactive_context
DelayedExit ==
    /\ pc = "dki_exit"
    /\ pc' = "done"
    /\ sigint_handler' = IF original_handler # "None"
                         THEN original_handler ELSE sigint_handler
    /\ exc' = IF Redelivers(interrupt_data, original_handler)
              THEN "KeyboardInterrupt" ELSE exc
    /\ exit_code' = ExitCode(exc')
    /\ delivered' = IF Redelivers(interrupt_data, original_handler)
                    THEN delivered + 1 ELSE delivered
    /\ UNCHANGED region_sigints
    /\ UNCHANGED <<parserVars, optVars, sighup_handler, original_handler, interrupt_data,
                   cntVars, subVars, pollVars, logVars, pfVars, delVars,
                   exit_callbacks>>

\* kubectl_pod_forward_port, lines 204-207, when the stack was left with the
\* generator still suspended at its yield (its exit never called, or cut short
\* by an exception): control has left interactive_context, and the interpreter
\* may still close the generator when it frees it, which runs the finally
GeneratorFinalized ==
    /\ pc = "done"
    /\ local_port # NoPort
    /\ pf_proc = "running"
    /\ pf_proc' = "finalized"
    /\ UNCHANGED <<parserVars, dkiVars, pc, optVars, sigVars, cntVars, subVars, pollVars, logVars,
                   pf_port, local_port, delVars, exit_callbacks, exc, exit_code>>

\* ------------------------------------------------------------------- signals

\* A SIGINT reaches the process: record_interrupt (lines 25-26) notes it,
\* SIG_IGN drops it, Python's default handler raises KeyboardInterrupt where
\* the main thread is
Sigint ==
    /\ pc # "done"
    /\ sigints < MaxSigint
    /\ sigints' = sigints + 1
    /\ IF sigint_handler = "record_interrupt"
       THEN /\ interrupt_data' = TRUE
            /\ region_sigints' = region_sigints + 1
            /\ UNCHANGED <<pc, exc, exit_code, delete_state>>
       ELSE IF sigint_handler = "SIG_IGN"
       THEN UNCHANGED <<interrupt_data, region_sigints, pc, exc, exit_code,
                        delete_state>>
       ELSE /\ Raise("KeyboardInterrupt")
            /\ UNCHANGED <<interrupt_data, region_sigints>>
    /\ UNCHANGED delivered
    /\ UNCHANGED <<parserVars, optVars, sigint_handler, sighup_handler, original_handler,
                   sighups, subVars, pollVars, logVars, pfVars, delete_calls,
                   delete_rc, exit_callbacks>>

\* A SIGHUP reaches the process: handle_sighup (lines 55-57) raises
\* typer.Exit(code=1) where the main thread is; before line 293 the default
\* action ends the process
Sighup ==
    /\ pc # "done"
    /\ sighups < MaxSighup
    /\ sighups' = sighups + 1
    /\ IF sighup_handler = "handle_sighup"
       THEN Raise("Exit")
       ELSE /\ pc' = "done"
            /\ exit_code' = 129
            /\ UNCHANGED <<exc, delete_state>>
    /\ UNCHANGED <<parserVars, dkiVars, optVars, sigVars, sigints, subVars, pollVars, logVars,
                   pfVars, delete_calls, delete_rc, exit_callbacks>>

\* ------------------------------------------------------------- specification

\* the state interactive_context starts in; the parsers are not being applied
Init ==
    /\ InitLifecycle
    /\ kubectl_case = TestCase
    /\ extracted = NotCalled
    /\ log_case = TestLog
    /\ details = DetailsNotCalled

Next ==
    \/ CheckCommand
    \/ CheckPort
    \/ SetupSighup
    \/ WithEnter
    \/ Push
    \/ SubmitStart
    \/ SubmitFinish
    \/ Poll
    \/ Sleep
    \/ LogsFetch
    \/ RetrySleep
    \/ PfStart
    \/ PfReadLine
    \/ EnterDelayed
    \/ UnwindNext
    \/ PfExit
    \/ DeleteStart
    \/ DeleteFinish
    \/ DelayedExit
    \/ GeneratorFinalized
    \/ Sigint
    \/ Sighup

Spec == Init /\ [][Next]_vars


\* -------------------------------------------------------------------- claims

\* C1: in every execution in which `runai submit` exited 0, `runai delete job`
\* has been invoked exactly once when the process has terminated, whether the
\* run ended by a fatal status, an error of the mode handler or a SIGINT at
\* any point after the submission (executions without SIGHUP).
C1_DeleteExactlyOnceAfterSubmit ==
    (pc = "done" /\ submit_rc = 0 /\ sighups = 0) => delete_calls = 1

\* C2: if `runai submit` exits nonzero, `runai delete job` is never invoked in
\* that execution and the process exits nonzero.
C2_NoDeleteAfterFailedSubmit ==
    submit_rc = 1 => (delete_calls = 0 /\ (pc = "done" => exit_code > 0))

\* C3: once the exit stack's __exit__ has been entered (here: of a job whose
\* submission succeeded), a SIGINT neither aborts nor re-enters teardown: the
\* step that delivers it leaves the control point, the pending exception, the
\* callbacks still to run and the delete child as they are.
C3_SigintInTeardownDeferred ==
    [][(sigints' = sigints + 1 /\ pc \in Teardown /\ submit_rc = 0)
         => (pc' = pc /\ exc' = exc /\ exit_callbacks' = exit_callbacks
             /\ delete_state' = delete_state)]_vars

\* C4: for a SIGHUP arriving at any point after successful submission (no
\* SIGINT in the execution), `runai delete job` is invoked exactly once and
\* completes before the process exits nonzero.
C4_SighupDeletesOnceAndCompletes ==
    (pc = "done" /\ submit_rc = 0 /\ sighups > 0 /\ sigints = 0)
        => (delete_calls = 1 /\ delete_state = "completed" /\ exit_code > 0)

\* a precondition of lines 283-290 has failed
PreconditionFailed ==
    \/ help_result \in {"FileNotFoundError", "returncode 1"}
    \/ (mode = "port" /\ container_port = NoPort)

\* C5: if the `runai --help` check does not succeed, or mode is port and no
\* container port is given, the launcher never gets past the checks: no
\* submit, no delete, no status poll, and when it has exited its exit status
\* is nonzero.
C5_PreconditionFailureTouchesNothing ==
    PreconditionFailed =>
        /\ pc \in {"check_command", "check_port", "done"}
        /\ submit_calls = 0
        /\ delete_calls = 0
        /\ describe_calls = 0
        /\ (pc = "done" => exit_code > 0)

\* C5 witness: the launcher has exited on the missing port, no signal involved
C5_Witness ==
    /\ pc = "done"
    /\ help_result = "returncode 0"
    /\ mode = "port"
    /\ container_port = NoPort
    /\ exc = "Exit"
    /\ sigints = 0
    /\ sighups = 0

\* C6: the first poll that yields a fatal status ends the wait: no further
\* poll is issued, no mode handler is entered, and when the process has
\* terminated `runai delete job` has been invoked and the exit status is
\* nonzero.
C6_FatalPollEndsWaitAndDeletes ==
    FatalStatus(job.status) =>
        /\ describe_calls = job.poll
        /\ pc \notin {"poll", "sleep"}
        /\ handler_entered = "None"
        /\ (pc = "done" => (delete_calls = 1 /\ exit_code > 0))

\* C7: wait_until_job_started returns at the first RUNNING poll, with the
\* handle of that poll, and "Creating container..." has been printed at most
\* once, however many polls reported CONTAINERCREATING.
C7_ReturnsRunningNoticeOnce ==
    /\ notices <= 1
    /\ (job.status = "RUNNING") = (started_job # NoJob)
    /\ started_job # NoJob =>
          /\ started_job.status = "RUNNING"
          /\ started_job = job
          /\ job.poll = describe_calls

\* C7 witness: the wait has returned after two CONTAINERCREATING polls
C7_Witness ==
    /\ started_job # NoJob
    /\ creating_polls >= 2
    /\ notices = 1

\* status strings that are no member name of RunAIJobStatus in any case
C8_Unrecognized == {S_Failed, S_Succeeded, S_Empty}

\* C8: a poll whose describe succeeded with an unrecognized status string is
\* classified NOT_READY and goes on to the sleep before the next poll: it
\* raises nothing and does not return from the wait.
C8_UnrecognizedKeepsWaiting ==
    [][(describe_calls' = describe_calls + 1
        /\ last_poll'.rc = 0 /\ last_poll'.status \in C8_Unrecognized)
         => (/\ job'.status = "NOT_READY"
             /\ pc' = "sleep"
             /\ exc' = exc
             /\ started_job' = started_job
             /\ handler_entered' = handler_entered)]_vars

\* C8 witness: the poller sleeps after a poll that reported "Failed"
C8_Witness ==
    /\ pc = "sleep"
    /\ last_poll.rc = 0
    /\ last_poll.status = S_Failed
    /\ job.status = "NOT_READY"

\* attempts of extract_jupyter_details_from_job that have failed
FailedAttempts ==
    logs_calls - (IF jupyter_details # NoDetails THEN 1 ELSE 0)

\* C9: at most 20 log-fetch attempts are made; every failed attempt, of either
\* kind, takes exactly one try of the one budget and is followed by the same
\* delay; once an attempt has found an endpoint no further attempt is made.
C9_RetryBudgetUniform ==
    /\ logs_calls <= Tries
    /\ tries_left = Tries - FailedAttempts
    /\ \A i \in DOMAIN slept : slept[i] = Delay
    /\ Len(slept) <= FailedAttempts
    /\ pc = "logs_fetch" => Len(slept) = FailedAttempts
    /\ jupyter_details # NoDetails => pc \notin {"logs_fetch", "retry_sleep"}

\* C9 witness: the budget is used up by failures of both kinds
C9_Witness ==
    /\ logs_calls = Tries
    /\ tries_left = 0
    /\ failure_kinds = {"CalledProcessError", "ValueError"}
    /\ Len(slept) = Tries - 1

\* C10: when all 20 attempts have failed, the failure that leaves the scraper
\* is the "endpoint not found" failure (the ValueError of line 255), whichever
\* kind of failure the attempts ended with.
C10_ExhaustionIsEndpointNotFound ==
    (pc = "stack_exit" /\ tries_left = 0) => exc = "ValueError"

\* C11: in jupyter mode the port-forward child is never started before the
\* scraper has returned an endpoint, and it forwards to the resolved container
\* port; if the retry budget is used up, no port-forward child is ever started
\* and, when the process has terminated, `runai delete job` has been invoked
\* and the exit status is nonzero.
C11_EndpointBeforeForwarding ==
    mode = "jupyter" =>
        /\ pf_proc # "none" =>
              /\ jupyter_details # NoDetails
              /\ pf_port = jupyter_details.container_port
        /\ tries_left = 0 =>
              /\ pf_proc = "none"
              /\ (pc = "done" => (delete_calls = 1 /\ exit_code > 0))

\* the parts of C11 that do not rest on the teardown: the order of scraper and
\* port-forward, the forwarded port, and no port-forward after exhaustion
C11_OrderingPart ==
    mode = "jupyter" =>
        /\ pf_proc # "none" =>
              /\ jupyter_details # NoDetails
              /\ pf_port = jupyter_details.container_port
        /\ tries_left = 0 => pf_proc = "none"

\* C12: once a forwarded local port has been obtained, the port-forward child
\* has been terminated by the time control has left interactive_context,
\* whatever ended the idle wait.
C12_PortForwardTerminatedOnExit ==
    (pc = "done" /\ local_port # NoPort) => pf_proc = "terminated"

\* C12 without a signal after the one that ended the idle wait
C12_SingleSignalPart ==
    (pc = "done" /\ local_port # NoPort /\ sigints + sighups <= 1)
        => pf_proc = "terminated"

\* C17: whenever a port-forward child was started with a port obtained and
\* the job was submitted, the child is terminated before `runai delete job` is
\* invoked, on every exit path.
C17_PortForwardTerminatedBeforeDelete ==
    (delete_calls >= 1 /\ local_port # NoPort) => pf_proc = "terminated"

\* C17 in the executions without SIGHUP
C17_NoSighupPart ==
    (delete_calls >= 1 /\ local_port # NoPort /\ sighups = 0)
        => pf_proc = "terminated"

\* C13: a `runai delete job` that exits nonzero raises no new error: the step
\* on which the delete child exits, with whatever return code, leaves the
\* exception in flight as it was and goes on with the unwinding, and changes
\* nothing else that the exit status of the process is computed from.
C13_DeleteFailureNotEscalated ==
    [][(pc = "delete_wait" /\ delete_state' = "completed")
         => (/\ exc' = exc
             /\ pc' = "unwind"
             /\ exit_code' = exit_code
             /\ interrupt_data' = interrupt_data
             /\ original_handler' = original_handler
             /\ exit_callbacks' = exit_callbacks)]_vars

\* C13 witness: the process has ended on a fatal status, the delete having
\* exited nonzero, with the exit of the fatal status
C13_Witness ==
    /\ pc = "done"
    /\ delete_rc = 1
    /\ delete_state = "completed"
    /\ FatalStatus(job.status)
    /\ exc = "Exit"
    /\ exit_code = ExitCode("Exit")
    /\ sigints = 0
    /\ sighups = 0

\* the statuses on which the poll loop goes on
C14_Waiting == {"PENDING", "NOT_READY", "CONTAINERCREATING"}

\* C14: the poll loop has no cap and no timeout: a poll that reports a
\* non-fatal, non-RUNNING status is followed by the sleep and the sleep by the
\* next poll, and the only steps that leave the loop are a poll that reports
\* RUNNING, a poll that reports a fatal status, or a signal.
C14_OnlyRunningFatalOrSignalLeave ==
    [][/\ (pc \in {"poll", "sleep"} /\ pc' \notin {"poll", "sleep"})
            => \/ sigints' = sigints + 1
               \/ sighups' = sighups + 1
               \/ /\ describe_calls' = describe_calls + 1
                  /\ job'.status \in
                        {"RUNNING", "DOES_NOT_EXISTS", "IMAGEPULLBACKOFF"}
       /\ (describe_calls' = describe_calls + 1 /\ job'.status \in C14_Waiting)
            => /\ pc' = "sleep"
               /\ exc' = exc
               /\ started_job' = started_job]_vars

\* C14 witness: after as many polls as the model runs, none of them RUNNING or
\* fatal and no signal delivered, the loop is still waiting
C14_Witness ==
    /\ pc = "sleep"
    /\ describe_calls = MaxPolls
    /\ job.status \in C14_Waiting
    /\ sigints = 0
    /\ sighups = 0

\* C18: inside the region of DelayedKeyboardInterrupt a SIGINT is only
\* recorded (the position, the exception in flight and the deliveries stay as
\* they are); an __exit__ that runs to its end delivers the recorded interrupt
\* exactly when at least one SIGINT arrived in the region and the handler in
\* force on entry was not SIG_IGN, raising KeyboardInterrupt; however many
\* SIGINTs arrived there is one delivery
C18_RecordedThenDeliveredOnce ==
    [][ /\ (sigints' # sigints /\ sigint_handler = "record_interrupt")
            => /\ pc' = pc
               /\ exc' = exc
               /\ exit_code' = exit_code
               /\ delete_state' = delete_state
               /\ delivered' = delivered
               /\ interrupt_data'
        /\ (pc = "dki_exit" /\ pc' = "done" /\ sighups' = sighups)
            => /\ delivered' - delivered =
                    IF region_sigints >= 1 /\ original_handler # "SIG_IGN"
                    THEN 1 ELSE 0
               /\ (delivered' # delivered => exc' = "KeyboardInterrupt")
               /\ (delivered' = delivered => exc' = exc)
        /\ delivered' <= 1 ]_vars

\* two SIGINTs arrived inside the region and one interrupt was delivered on
\* leaving it
C18_Witness ==
    /\ pc = "done"
    /\ region_sigints = 2
    /\ delivered = 1
    /\ exc = "KeyboardInterrupt"

\* a SIGINT arrived inside a region entered with SIGINT ignored, and nothing
\* was delivered on leaving it
C18_IgnoredPolicyReached ==
    /\ pc = "done"
    /\ region_sigints >= 1
    /\ original_handler = "SIG_IGN"
    /\ delivered = 0

\* C19: a job handle has the status DOES_NOT_EXISTS only when the describe
\* that produced it exited nonzero
C19_DoesNotExistOnlyOnFailedQuery ==
    job.status = "DOES_NOT_EXISTS" => last_poll.rc # 0

\* C20: whatever the precondition checks and the submission give and whatever
\* signals arrive, `runai delete job` is invoked at most once
C20_DeleteAtMostOnce ==
    delete_calls <= 1

\* an execution that took every SIGINT and SIGHUP of the bounds after a
\* submission, with the delete invoked once
C20_Witness ==
    /\ pc = "done"
    /\ delete_calls = 1
    /\ sigints = MaxSigint
    /\ sighups = MaxSighup
    /\ submit_calls = 1

\* ------------------------------------------------- the port-forward parser

\* every variable of the lifecycle
lifeVars == <<pc, optVars, sigVars, cntVars, dkiVars, subVars, pollVars,
              logVars, pfVars, delVars, exit_callbacks, exc, exit_code>>

\* the lifecycle at its start with one choice of options, left alone while a
\* parser is applied
LifecycleAtRest ==
    /\ InitLifecycle
    /\ mode = "port"
    /\ container_port = 8888
    /\ sigint_handler = "default_int_handler"

\* lines handed to kubectl_output_extract_forwarded_port: a Forwarding line on
\* an IPv4, named or IPv6 loopback host, and lines that begin otherwise
KubectlPrefixes ==
    {B_ForwardingFrom, B_forwarding_from, B_HandlingConnectionFor,
     B_Forwardin, B_Else, << >>}
KubectlHosts == {B_IPv4Loopback, B_localhost, B_IPv6Loopback}
LocalPorts == {34805, 8080, 0}
RemotePorts == {8888, 80}
LineEndings == {<< >>, B_Newline}

KubectlCases ==
    [prefix : KubectlPrefixes, host : KubectlHosts, local_port : LocalPorts,
     remote_port : RemotePorts, ending : LineEndings]

InitKubectl ==
    /\ LifecycleAtRest
    /\ kubectl_case \in KubectlCases
    /\ extracted = NotCalled
    /\ log_case = TestLog
    /\ details = DetailsNotCalled

\* line 202: port = kubectl_output_extract_forwarded_port(line)
ExtractForwardedPort ==
    /\ extracted = NotCalled
    /\ extracted' =
           kubectl_output_extract_forwarded_port(ForwardingLine(kubectl_case))
    /\ UNCHANGED <<kubectl_case, log_case, details, lifeVars>>

NextKubectl == ExtractForwardedPort

SpecKubectl == InitKubectl /\ [][NextKubectl]_vars

\* C15: a line that does not begin with Forwarding gives None, and a line
\* `Forwarding from <host>:<local_port> -> <remote_port>` gives local_port
C15_NoneOrLocalPort ==
    extracted # NotCalled =>
        /\ ~startswith(ForwardingLine(kubectl_case), B_Forwarding)
               => extracted = ReturnedNone
        /\ kubectl_case.prefix = B_ForwardingFrom
               => extracted = [kind |-> "int", value |-> kubectl_case.local_port]

\* the half of C15 about lines that do not begin with Forwarding
C15_NoMatchPart ==
    (extracted # NotCalled
     /\ ~startswith(ForwardingLine(kubectl_case), B_Forwarding))
        => extracted = ReturnedNone

\* the other half of C15, for hosts written without a colon
C15_ColonFreeHostPart ==
    (extracted # NotCalled
     /\ kubectl_case.prefix = B_ForwardingFrom
     /\ find(kubectl_case.host, B_Colon, 1) = 0)
        => extracted = [kind |-> "int", value |-> kubectl_case.local_port]

\* the line of the test gives 34805
C15_TestLineReached ==
    /\ kubectl_case = [TestCase EXCEPT !.ending = << >>]
    /\ extracted = [kind |-> "int", value |-> 34805]

\* ------------------------------------------------------ the endpoint parser

\* the query of a URL item: none, a token, a token that needs quoting, a
\* blank token, and a token after another parameter
ParamLists ==
    {<< >>,
     <<Param(B_token, TokenOfTest)>>,
     <<Param(B_token, TokenWithSpace)>>,
     <<Param(B_token, << >>)>>,
     <<Param(B_other, <<"1">>), Param(B_token, TokenOfTest)>>}

\* the items of a log text: words without a URL, and URLs of either scheme,
\* with and without a port, at the start of a word or directly after text
LogItems ==
    {Word(B_browser), Word(B_http)} \cup
    {URLItem(g, s, p, q) : g \in {<< >>, B_see}, s \in {B_http, B_https},
                           p \in {NoPort, 8970}, q \in ParamLists}

\* log texts of one or two items
LogCases ==
    {[items |-> <<a>>, sep |-> B_Space] : a \in LogItems} \cup
    {[items |-> <<a, b>>, sep |-> w] : a \in LogItems, b \in LogItems,
                                      w \in {B_Space, B_Newline}}

InitJupyter ==
    /\ LifecycleAtRest
    /\ kubectl_case = TestCase
    /\ extracted = NotCalled
    /\ log_case \in LogCases
    /\ details = DetailsNotCalled

\* line 254: jupyter_details = find_jupyter_details_in_logs(proc.stdout)
FindJupyterDetails ==
    /\ details = DetailsNotCalled
    /\ details' = find_jupyter_details_in_logs(RenderLog(log_case))
    /\ UNCHANGED <<log_case, kubectl_case, extracted, lifeVars>>

NextJupyter == FindJupyterDetails

SpecJupyter == InitJupyter /\ [][NextJupyter]_vars

\* the item has a non-empty token query parameter
HasToken(u) ==
    u.url /\ \E i \in DOMAIN u.params :
                 u.params[i].name = B_token /\ u.params[i].value # << >>

\* the endpoint of an item that has a token: its first non-empty token, and
\* its explicit port or the default of its scheme
Endpoint(u) ==
    LET i == CHOOSE k \in DOMAIN u.params :
                 /\ u.params[k].name = B_token /\ u.params[k].value # << >>
                 /\ \A l \in 1..(k - 1) :
                        ~(u.params[l].name = B_token /\ u.params[l].value # << >>)
    IN [kind |-> "details",
        container_port |-> IF u.port # NoPort THEN u.port
                           ELSE IF u.scheme = B_http THEN 80 ELSE 443,
        token |-> u.params[i].value]

\* the endpoint of the first item among candidates that has a token, None
\* when there is none
FirstEndpoint(candidates) ==
    IF \E i \in DOMAIN candidates : HasToken(candidates[i])
    THEN Endpoint(candidates[CHOOSE i \in DOMAIN candidates :
                                 /\ HasToken(candidates[i])
                                 /\ \A l \in 1..(i - 1) : ~HasToken(candidates[l])])
    ELSE NoDetails

\* the item is a whitespace-delimited word of the text that begins with http
IsHttpWord(u) == startswith(RenderItem(u), B_http)

\* the item holds a URL, at its start or after other text
HoldsURL(u) == u.url

C16_NoMatchReached ==
    /\ \A i \in DOMAIN log_case.items : ~HasToken(log_case.items[i])
    /\ \E i \in DOMAIN log_case.items : log_case.items[i].url
    /\ details = NoDetails

====
